---- MODULE Spec2Model ----
(***************************************************************************)
(* AudioSpectrum (src/src/App.tsx:122-285): the frequency-spectrum         *)
(* visualizer.  One mounted instance owns an <audio> element, a <canvas>,  *)
(* two refs (progressRef, seekingRef), one state cell (progress) and, per  *)
(* run of the graph effect, one closure holding an AudioContext, an        *)
(* analyser, a media-element source node and an animationFrameId.          *)
(*                                                                         *)
(* Every handler runs to completion on the UI thread, so each handler is   *)
(* one action.  The media element, the pointer device, the display's frame *)
(* callback and the parent component (props) are the environment: their    *)
(* events are the inputs.                                                  *)
(*                                                                         *)
(* Real numbers (ratios, times, pixel positions) are exact rationals       *)
(* <<numerator, denominator>> in lowest terms with a positive denominator. *)
(***************************************************************************)
EXTENDS Integers, Sequences, FiniteSets, TLC

VARIABLES
    life,          \* "new" | "mounted" | "gone": the instance's lifecycle
    src,           \* prop src: the AudioSource handed to the instance
    disabled,      \* prop disabled
    graphs,        \* one record per run of the graph effect that created an AudioContext
    cur,           \* index in graphs of the closure whose play/pause/ended listeners
                   \* are registered on the audio element; 0 when none
    pending,       \* requestAnimationFrame callbacks not yet run, oldest first
    nextFrame,     \* the last handle requestAnimationFrame returned
    duration,      \* audioEl.duration (NaN, Infinity or a number of seconds)
    currentTime,   \* audioEl.currentTime (rational seconds)
    progressRef,   \* progressRef.current, the fast-path copy
    progress,      \* the progress state cell, the display copy
    seekingRef,    \* seekingRef.current
    markerX,       \* x of the position marker drawn by the last render tick
    barWidth,      \* width of the bars drawn by the last render tick
    playback,      \* the last of play / pause / ended dispatched by the element
    event,         \* the event dispatched last
    ptr,           \* clientX and canvas rectangle of the last pointer event
    raised,        \* the last handler let an exception escape to its caller
    barsIn,        \* canvas width, bin count and byte data of the last bar loop
    barsOut,       \* the rectangles that bar loop passed to fillRect, in order
    file,          \* HomePage: the number of the selected file, 0 for none
    stems,         \* HomePage: the displayed stems list
    uploading,     \* HomePage: the uploading state cell
    allocatedBlobUrls, \* HomePage: allocatedBlobUrls.current
    revoked,       \* the stem blob URLs passed to URL.revokeObjectURL
    nextBlob,      \* the number of stem blob URLs URL.createObjectURL returned
    pc,            \* where the running handleProcess call is suspended
    mapped         \* the results of that call's hydrateStem promises

vars == <<life, src, disabled, graphs, cur, pending, nextFrame, duration,
          currentTime, progressRef, progress, seekingRef, markerX,
          barWidth, playback, event, ptr, raised, barsIn, barsOut,
          file, stems, uploading, allocatedBlobUrls, revoked, nextBlob, pc,
          mapped>>

\* The state of one AudioSpectrum instance and the state of HomePage.
spectrumVars == <<life, src, disabled, graphs, cur, pending, nextFrame,
                  duration, currentTime, progressRef, progress, seekingRef,
                  markerX, barWidth, playback, event, ptr, raised, barsIn,
                  barsOut>>
homeVars == <<file, stems, uploading, allocatedBlobUrls, revoked, nextBlob,
              pc, mapped>>

-----------------------------------------------------------------------------
(* Bounds *)

MaxGraphs == 2      \* runs of the graph effect that create an AudioContext
MaxFrames == 3      \* requestAnimationFrame calls
MaxBins == 3        \* frequency bins of a bar loop run on its own
MaxFiles == 2       \* files the user selects
MaxStems == 2       \* stems one segmentation response lists
MaxBlobs == 3       \* stem blob URLs created

(* Program constants *)

NaN == -1           \* audioEl.duration before metadata is loaded
Infinity == -2      \* audioEl.duration of an unbounded stream
FftSize == 256      \* analyser.fftSize
CanvasWidth == 300  \* canvas.width: the <canvas> sets no width attribute

(* Inputs *)

Sources   == {"a", "b"}
Durations == {0, 200, Infinity}
Times     == {0, 50, 200, 250}
Rects     == {[left |-> 10, width |-> 4]}
Xs        == {0, 10, 11, 14, 20}

-----------------------------------------------------------------------------
(* Rational arithmetic *)

Abs(n) == IF n < 0 THEN -n ELSE n

RECURSIVE GCD(_, _)
GCD(a, b) == IF b = 0 THEN a ELSE GCD(b, a % b)

Rat(n, d) == LET g == GCD(Abs(n), d) IN <<n \div g, d \div g>>

RMul(p, q) == Rat(p[1] * q[1], p[2] * q[2])
RAdd(p, q) == Rat(p[1] * q[2] + q[1] * p[2], p[2] * q[2])
RSub(p, q) == Rat(p[1] * q[2] - q[1] * p[2], p[2] * q[2])
RDiv(p, q) == IF q[1] < 0 THEN Rat(-(p[1] * q[2]), p[2] * (-q[1]))
                          ELSE Rat(p[1] * q[2], p[2] * q[1])
RLeq(p, q) == p[1] * q[2] <= q[1] * p[2]

RMax(p, q) == IF RLeq(p, q) THEN q ELSE p
RMin(p, q) == IF RLeq(p, q) THEN p ELSE q

Zero == <<0, 1>>
One  == <<1, 1>>

-----------------------------------------------------------------------------
(* Pure parts of the handlers *)

\* Mutant of NoDuration: the Number.isNaN test is missing.
NoDurationFalsyOnly(d) == d = 0

\* !audioEl.duration || Number.isNaN(audioEl.duration)
NoDuration(d) == d = 0 \/ d = NaN

\* Mutant of TimeRatio: the quotient without the clamp.
TimeRatioUnclamped(t, d) ==
    IF d = Infinity THEN Zero ELSE RDiv(t, <<d, 1>>)

\* Math.min(Math.max(audioEl.currentTime / audioEl.duration, 0), 1)
TimeRatio(t, d) ==
    IF d = Infinity THEN Zero
    ELSE RMin(RMax(RDiv(t, <<d, 1>>), Zero), One)

\* Mutant of SeekRatio: the quotient without the clamp.
SeekRatioUnclamped(x, rect) == Rat(x - rect.left, rect.width)

\* Math.min(Math.max((clientX - rect.left) / rect.width, 0), 1)
SeekRatio(x, rect) ==
    RMin(RMax(Rat(x - rect.left, rect.width), Zero), One)

\* analyser.frequencyBinCount
BufferLength == FftSize \div 2

\* (width / bufferLength) * 1.5
BarWidthOf(width) == RMul(Rat(width, BufferLength), <<3, 2>>)

\* progressRef.current * width
MarkerOf(p, width) == RMul(p, <<width, 1>>)

\* canvas.height: the height prop, 80 unless the caller passes one
CanvasHeight == 80

\* Inputs of a bar loop run on its own: canvas widths and byte values.
Widths == {7, 64, 300}
Levels == {0, 128, 255}

\* (width / bufferLength) * 1.5 for a bin count n
BarWidthFor(width, n) == RMul(Rat(width, n), <<3, 2>>)

\* (value / 255) * h
BarHeightOf(value) == RMul(Rat(value, 255), <<CanvasHeight, 1>>)

RECURSIVE BarLoopSkipSilent(_, _, _, _, _)
\* Mutant of the bar loop: x advances only past bars with a non-zero value.
BarLoopSkipSilent(i, x, bw, n, data) ==
    IF i > n THEN << >>
    ELSE <<[x |-> x, y |-> RSub(<<CanvasHeight, 1>>, BarHeightOf(data[i])),
            w |-> bw, h |-> BarHeightOf(data[i])]>>
         \o BarLoopSkipSilent(i + 1,
                IF data[i] = 0 THEN x ELSE RAdd(x, RAdd(bw, One)), bw, n, data)

\* Mutant of DrawBars.
DrawBarsSkipSilent(width, n, data) ==
    BarLoopSkipSilent(1, Zero, BarWidthFor(width, n), n, data)

RECURSIVE BarLoop(_, _, _, _, _)
\* for (i ...) { fillRect(x, h - barHeight, barWidth, barHeight);
\*               x += barWidth + 1 }: the rectangles from bin i on.
BarLoop(i, x, bw, n, data) ==
    IF i > n THEN << >>
    ELSE <<[x |-> x, y |-> RSub(<<CanvasHeight, 1>>, BarHeightOf(data[i])),
            w |-> bw, h |-> BarHeightOf(data[i])]>>
         \o BarLoop(i + 1, RAdd(x, RAdd(bw, One)), bw, n, data)

\* The bar loop of render for canvas width, bin count n and byte data.
DrawBars(width, n, data) ==
    BarLoop(1, Zero, BarWidthFor(width, n), n, data)

NoBars == [width |-> 0, bins |-> 0, data |-> << >>]

NoPtr == [x |-> 0, left |-> 0, width |-> 1]

-----------------------------------------------------------------------------
(* The graph effect: useEffect(..., [disabled, src]) *)

SetupOutcomes == {"ok", "noCanvasContext", "noAudioContext", "sourceThrows"}
ContextStates == {"suspended", "running"}

\* The outcomes of one run that construct an AudioContext.
CreatesContext(dis, outcome) == ~dis /\ outcome \in {"ok", "sourceThrows"}

\* Mutant of GraphEffect: the disabled test is missing.
GraphEffectIgnoreDisabled(gs, dis, s, outcome, st) ==
    IF outcome = "noCanvasContext"
    THEN [graphs |-> gs, cur |-> 0, raised |-> FALSE]
    ELSE IF outcome = "noAudioContext"
    THEN [graphs |-> gs, cur |-> 0, raised |-> TRUE]
    ELSE IF outcome = "sourceThrows"
    THEN [graphs |-> Append(gs, [src |-> s, ctx |-> st, source |-> "none",
                                 analyser |-> "unconnected", frameId |-> 0]),
          cur |-> 0, raised |-> TRUE]
    ELSE [graphs |-> Append(gs, [src |-> s, ctx |-> st, source |-> "connected",
                                 analyser |-> "connected", frameId |-> 0]),
          cur |-> Len(gs) + 1, raised |-> FALSE]

\* One run of the effect body for props (dis, s).  outcome is what the
\* platform does: getContext("2d") returns null, window.AudioContext is
\* missing, createMediaElementSource throws (the element is already bound to
\* a source node), or every call succeeds.  st is the state the new context
\* starts in.  The result is the closures, the closure whose listeners are
\* registered, and whether the effect threw.
GraphEffect(gs, dis, s, outcome, st) ==
    IF dis \/ outcome = "noCanvasContext"
    THEN [graphs |-> gs, cur |-> 0, raised |-> FALSE]
    ELSE IF outcome = "noAudioContext"
    THEN [graphs |-> gs, cur |-> 0, raised |-> TRUE]
    ELSE IF outcome = "sourceThrows"
    THEN [graphs |-> Append(gs, [src |-> s, ctx |-> st, source |-> "none",
                                 analyser |-> "unconnected", frameId |-> 0]),
          cur |-> 0, raised |-> TRUE]
    ELSE [graphs |-> Append(gs, [src |-> s, ctx |-> st, source |-> "connected",
                                 analyser |-> "connected", frameId |-> 0]),
          cur |-> Len(gs) + 1, raised |-> FALSE]

\* cancelAnimationFrame(id)
CancelFrame(q, id) == SelectSeq(q, LAMBDA c : c.id # id)

\* The effect's cleanup for closure g: the frames it cancels ...
CleanupFrames(q, gs, g) ==
    IF g = 0 THEN q ELSE CancelFrame(q, gs[g].frameId)

\* Mutant of CleanupGraph: the nodes are disconnected, the context is not closed.
CleanupGraphNoClose(gs, g) ==
    IF g = 0 THEN gs
    ELSE [gs EXCEPT ![g].source = "disconnected",
                    ![g].analyser = "disconnected"]

\* ... and the graph it releases: source.disconnect(); analyser.disconnect();
\* audioCtx.close().  No run without a registered closure returned a cleanup.
CleanupGraph(gs, g) ==
    IF g = 0 THEN gs
    ELSE [gs EXCEPT ![g].source = "disconnected",
                    ![g].analyser = "disconnected",
                    ![g].ctx = "closed"]

\* Mutant of RenderFrames: render draws without requesting the next frame.
RenderFramesNoRequest(q, nf, g) == q

\* Which call of the cleanup's try block throws, if any; the catch swallows
\* the exception and the calls after the throwing one are skipped.
TeardownFaults == {"none", "source", "analyser", "close"}

\* try { source.disconnect(); analyser.disconnect(); audioCtx.close(); }
\* catch {} with the call named by fault throwing.
CleanupGraphWith(gs, g, fault) ==
    IF g = 0 \/ fault = "none" THEN CleanupGraph(gs, g)
    ELSE IF fault = "source" THEN gs
    ELSE IF fault = "analyser" THEN [gs EXCEPT ![g].source = "disconnected"]
    ELSE [gs EXCEPT ![g].source = "disconnected",
                    ![g].analyser = "disconnected"]

\* render(): schedule the next frame, then draw the bars and the marker.
RenderFrames(q, nf, g) == Append(q, [id |-> nf + 1, g |-> g])
RenderGraphs(gs, nf, g) == [gs EXCEPT ![g].frameId = nf + 1]

\* handlePlay: resume a suspended context.
Resume(gs, g) ==
    IF gs[g].ctx = "suspended" THEN [gs EXCEPT ![g].ctx = "running"] ELSE gs

-----------------------------------------------------------------------------
(* handleTime and seekToPointer *)

\* Mutant of HandleTime: an unknown duration yields ratio 0, which is written.
HandleTimeZero(p, t, d) == IF NoDuration(d) THEN Zero ELSE TimeRatio(t, d)

\* Mutant of HandleTime: the quotient is written without the clamp.
HandleTimeUnclamped(p, t, d) ==
    IF NoDuration(d) THEN p ELSE TimeRatioUnclamped(t, d)

\* handleTime: the value both progress copies hold afterwards.
HandleTime(p, t, d) == IF NoDuration(d) THEN p ELSE TimeRatio(t, d)

\* seekToPointer: audioEl.currentTime = ratio * duration throws a TypeError
\* when the product is not finite.
SeekThrows(d) == d = Infinity \/ d = NaN
SeekActs(d) == ~NoDuration(d) /\ ~SeekThrows(d)
SeekTime(x, rect, d) == RMul(SeekRatio(x, rect), <<d, 1>>)

-----------------------------------------------------------------------------
Init ==
    /\ life = "new"
    /\ src = "a"
    /\ disabled \in BOOLEAN
    /\ graphs = << >>
    /\ cur = 0
    /\ pending = << >>
    /\ nextFrame = 0
    /\ duration = NaN
    /\ currentTime = Zero
    /\ progressRef = Zero
    /\ progress = Zero
    /\ seekingRef = FALSE
    /\ markerX = Zero
    /\ barWidth = Zero
    /\ playback = "idle"
    /\ event = "none"
    /\ barsIn = NoBars
    /\ barsOut = << >>
    /\ file = 0
    /\ stems = << >>
    /\ uploading = FALSE
    /\ allocatedBlobUrls = << >>
    /\ revoked = {}
    /\ nextBlob = 0
    /\ pc = "idle"
    /\ mapped = << >>
    /\ ptr = NoPtr
    /\ raised = FALSE

\* First commit: both effects run.
Mount(outcome, st) ==
    /\ life = "new"
    /\ CreatesContext(disabled, outcome) => Len(graphs) < MaxGraphs
    /\ LET r == GraphEffect(graphs, disabled, src, outcome, st) IN
        /\ graphs' = r.graphs
        /\ cur' = r.cur
        /\ raised' = r.raised
        /\ life' = IF r.raised THEN "gone" ELSE "mounted"
    /\ event' = "mount"
    /\ ptr' = NoPtr
    /\ UNCHANGED <<barsIn, barsOut>>
    /\ UNCHANGED homeVars
    /\ UNCHANGED <<src, disabled, pending, nextFrame, duration, currentTime,
                   progressRef, progress, seekingRef, markerX,
                   barWidth, playback>>

\* The src prop changes: the element loads the new source, the cleanup of the
\* previous run executes, then the effect runs again.
SrcChange(s, outcome, st) ==
    /\ life = "mounted"
    /\ s # src
    /\ CreatesContext(disabled, outcome) => Len(graphs) < MaxGraphs
    /\ src' = s
    /\ duration' = NaN
    /\ currentTime' = Zero
    /\ playback' = "idle"
    /\ pending' = CleanupFrames(pending, graphs, cur)
    /\ LET r == GraphEffect(CleanupGraph(graphs, cur), disabled, s, outcome, st) IN
        /\ graphs' = r.graphs
        /\ cur' = r.cur
        /\ raised' = r.raised
        /\ life' = IF r.raised THEN "gone" ELSE "mounted"
    /\ event' = "srcchange"
    /\ ptr' = NoPtr
    /\ UNCHANGED <<barsIn, barsOut>>
    /\ UNCHANGED homeVars
    /\ UNCHANGED <<disabled, nextFrame, progressRef, progress, seekingRef, markerX, barWidth>>

\* The disabled prop changes.
Toggle(outcome, st) ==
    /\ life = "mounted"
    /\ CreatesContext(~disabled, outcome) => Len(graphs) < MaxGraphs
    /\ disabled' = ~disabled
    /\ pending' = CleanupFrames(pending, graphs, cur)
    /\ LET r == GraphEffect(CleanupGraph(graphs, cur), ~disabled, src, outcome, st) IN
        /\ graphs' = r.graphs
        /\ cur' = r.cur
        /\ raised' = r.raised
        /\ life' = IF r.raised THEN "gone" ELSE "mounted"
    /\ event' = "toggle"
    /\ ptr' = NoPtr
    /\ UNCHANGED <<barsIn, barsOut>>
    /\ UNCHANGED homeVars
    /\ UNCHANGED <<src, nextFrame, duration, currentTime, progressRef, progress,
                   seekingRef, markerX, barWidth, playback>>

Unmount ==
    /\ life = "mounted"
    /\ life' = "gone"
    /\ pending' = CleanupFrames(pending, graphs, cur)
    /\ graphs' = CleanupGraph(graphs, cur)
    /\ cur' = 0
    /\ raised' = FALSE
    /\ event' = "unmount"
    /\ ptr' = NoPtr
    /\ UNCHANGED <<barsIn, barsOut>>
    /\ UNCHANGED homeVars
    /\ UNCHANGED <<src, disabled, nextFrame, duration, currentTime, progressRef,
                   progress, seekingRef, markerX, barWidth, playback>>

\* The teardown steps with a platform whose disconnect() or close() may
\* throw; with fault "none" they are SrcChange, Toggle and Unmount.
SrcChangeWith(s, outcome, st, fault) ==
    /\ life = "mounted"
    /\ s # src
    /\ CreatesContext(disabled, outcome) => Len(graphs) < MaxGraphs
    /\ src' = s
    /\ duration' = NaN
    /\ currentTime' = Zero
    /\ playback' = "idle"
    /\ pending' = CleanupFrames(pending, graphs, cur)
    /\ LET r == GraphEffect(CleanupGraphWith(graphs, cur, fault), disabled, s,
                            outcome, st) IN
        /\ graphs' = r.graphs
        /\ cur' = r.cur
        /\ raised' = r.raised
        /\ life' = IF r.raised THEN "gone" ELSE "mounted"
    /\ event' = "srcchange"
    /\ ptr' = NoPtr
    /\ UNCHANGED <<barsIn, barsOut>>
    /\ UNCHANGED homeVars
    /\ UNCHANGED <<disabled, nextFrame, progressRef, progress, seekingRef, markerX, barWidth>>

ToggleWith(outcome, st, fault) ==
    /\ life = "mounted"
    /\ CreatesContext(~disabled, outcome) => Len(graphs) < MaxGraphs
    /\ disabled' = ~disabled
    /\ pending' = CleanupFrames(pending, graphs, cur)
    /\ LET r == GraphEffect(CleanupGraphWith(graphs, cur, fault), ~disabled, src,
                            outcome, st) IN
        /\ graphs' = r.graphs
        /\ cur' = r.cur
        /\ raised' = r.raised
        /\ life' = IF r.raised THEN "gone" ELSE "mounted"
    /\ event' = "toggle"
    /\ ptr' = NoPtr
    /\ UNCHANGED <<barsIn, barsOut>>
    /\ UNCHANGED homeVars
    /\ UNCHANGED <<src, nextFrame, duration, currentTime, progressRef, progress,
                   seekingRef, markerX, barWidth, playback>>

UnmountWith(fault) ==
    /\ life = "mounted"
    /\ life' = "gone"
    /\ pending' = CleanupFrames(pending, graphs, cur)
    /\ graphs' = CleanupGraphWith(graphs, cur, fault)
    /\ cur' = 0
    /\ raised' = FALSE
    /\ event' = "unmount"
    /\ ptr' = NoPtr
    /\ UNCHANGED <<barsIn, barsOut>>
    /\ UNCHANGED homeVars
    /\ UNCHANGED <<src, disabled, nextFrame, duration, currentTime, progressRef,
                   progress, seekingRef, markerX, barWidth, playback>>

-----------------------------------------------------------------------------
(* Media element events *)

\* "play": handlePlay, which calls render() directly.
Play ==
    /\ life = "mounted"
    /\ playback' = "play"
    /\ IF cur = 0
       THEN UNCHANGED <<graphs, pending, nextFrame, markerX, barWidth>>
       ELSE /\ nextFrame < MaxFrames
            /\ graphs' = RenderGraphs(Resume(graphs, cur), nextFrame, cur)
            /\ pending' = RenderFrames(pending, nextFrame, cur)
            /\ nextFrame' = nextFrame + 1
            /\ markerX' = MarkerOf(progressRef, CanvasWidth)
            /\ barWidth' = BarWidthOf(CanvasWidth)
    /\ raised' = FALSE
    /\ event' = "play"
    /\ ptr' = NoPtr
    /\ UNCHANGED <<barsIn, barsOut>>
    /\ UNCHANGED homeVars
    /\ UNCHANGED <<life, src, disabled, cur, duration, currentTime, progressRef,
                   progress, seekingRef>>

\* "pause": handlePause.
Pause ==
    /\ life = "mounted"
    /\ playback' = "pause"
    /\ pending' = CleanupFrames(pending, graphs, cur)
    /\ raised' = FALSE
    /\ event' = "pause"
    /\ ptr' = NoPtr
    /\ UNCHANGED <<barsIn, barsOut>>
    /\ UNCHANGED homeVars
    /\ UNCHANGED <<life, src, disabled, graphs, cur, nextFrame, duration,
                   currentTime, progressRef, progress, seekingRef,
                   markerX, barWidth>>

\* "ended": handlePause, then handleTime.  Playback ends only once the
\* metadata is loaded.
Ended ==
    /\ life = "mounted"
    /\ duration # NaN
    /\ playback' = "ended"
    /\ currentTime' = IF duration > 0 THEN <<duration, 1>> ELSE currentTime
    /\ pending' = CleanupFrames(pending, graphs, cur)
    /\ progressRef' = HandleTime(progressRef, currentTime', duration)
    /\ progress' = HandleTime(progress, currentTime', duration)
    /\ raised' = FALSE
    /\ event' = "ended"
    /\ ptr' = NoPtr
    /\ UNCHANGED <<barsIn, barsOut>>
    /\ UNCHANGED homeVars
    /\ UNCHANGED <<life, src, disabled, graphs, cur, nextFrame, duration,
                   seekingRef, markerX, barWidth>>

\* "timeupdate" at position t: handleTime.
TimeUpdate(t) ==
    /\ life = "mounted"
    /\ duration = NaN => t = 0
    /\ currentTime' = <<t, 1>>
    /\ progressRef' = HandleTime(progressRef, currentTime', duration)
    /\ progress' = HandleTime(progress, currentTime', duration)
    /\ raised' = FALSE
    /\ event' = "timeupdate"
    /\ ptr' = NoPtr
    /\ UNCHANGED <<barsIn, barsOut>>
    /\ UNCHANGED homeVars
    /\ UNCHANGED <<life, src, disabled, graphs, cur, pending, nextFrame,
                   duration, seekingRef, markerX, barWidth, playback>>

\* Mutant of LoadedMetadata: handleTime is not registered for the event.
LoadedMetadataNoHandler(d) ==
    /\ life = "mounted"
    /\ duration = NaN
    /\ duration' = d
    /\ raised' = FALSE
    /\ event' = "loadedmetadata"
    /\ ptr' = NoPtr
    /\ UNCHANGED <<barsIn, barsOut>>
    /\ UNCHANGED homeVars
    /\ UNCHANGED <<life, src, disabled, graphs, cur, pending, nextFrame,
                   currentTime, progressRef, progress, seekingRef, markerX,
                   barWidth, playback>>

\* "loadedmetadata": the duration d becomes known; handleTime.
LoadedMetadata(d) ==
    /\ life = "mounted"
    /\ duration = NaN
    /\ duration' = d
    /\ progressRef' = HandleTime(progressRef, currentTime, d)
    /\ progress' = HandleTime(progress, currentTime, d)
    /\ raised' = FALSE
    /\ event' = "loadedmetadata"
    /\ ptr' = NoPtr
    /\ UNCHANGED <<barsIn, barsOut>>
    /\ UNCHANGED homeVars
    /\ UNCHANGED <<life, src, disabled, graphs, cur, pending, nextFrame,
                   currentTime, seekingRef, markerX, barWidth, playback>>

\* The display runs the oldest scheduled callback: render().
Frame ==
    /\ pending # << >>
    /\ nextFrame < MaxFrames
    /\ LET c == Head(pending) IN
        /\ graphs' = RenderGraphs(graphs, nextFrame, c.g)
        /\ pending' = RenderFrames(Tail(pending), nextFrame, c.g)
    /\ nextFrame' = nextFrame + 1
    /\ markerX' = MarkerOf(progressRef, CanvasWidth)
    /\ barWidth' = BarWidthOf(CanvasWidth)
    /\ raised' = FALSE
    /\ event' = "frame"
    /\ ptr' = NoPtr
    /\ UNCHANGED <<barsIn, barsOut>>
    /\ UNCHANGED homeVars
    /\ UNCHANGED <<life, src, disabled, cur, duration, currentTime, progressRef,
                   progress, seekingRef, playback>>

-----------------------------------------------------------------------------
(* Pointer events on the canvas *)

\* Mutant of Seek: setProgress(ratio) is missing.
SeekRefOnly(x, rect) ==
    /\ raised' = (~NoDuration(duration) /\ SeekThrows(duration))
    /\ IF SeekActs(duration)
       THEN /\ currentTime' = SeekTime(x, rect, duration)
            /\ progressRef' = SeekRatio(x, rect)
            /\ UNCHANGED progress
       ELSE UNCHANGED <<currentTime, progressRef, progress>>

\* seekToPointer(clientX) as called from a pointer handler.
Seek(x, rect) ==
    /\ raised' = (~NoDuration(duration) /\ SeekThrows(duration))
    /\ IF SeekActs(duration)
       THEN /\ currentTime' = SeekTime(x, rect, duration)
            /\ progressRef' = SeekRatio(x, rect)
            /\ progress' = SeekRatio(x, rect)
       ELSE UNCHANGED <<currentTime, progressRef, progress>>

\* Mutant of PointerDown: the disabled test is missing.
PointerDownUnguarded(x, rect) ==
    /\ life = "mounted"
    /\ seekingRef' = TRUE
    /\ Seek(x, rect)
    /\ event' = "pointerdown"
    /\ ptr' = [x |-> x, left |-> rect.left, width |-> rect.width]
    /\ UNCHANGED <<barsIn, barsOut>>
    /\ UNCHANGED homeVars
    /\ UNCHANGED <<life, src, disabled, graphs, cur, pending, nextFrame,
                   duration, markerX, barWidth, playback>>

PointerDown(x, rect) ==
    /\ life = "mounted"
    /\ IF disabled
       THEN /\ raised' = FALSE
            /\ UNCHANGED <<seekingRef, currentTime, progressRef, progress>>
       ELSE /\ seekingRef' = TRUE
            /\ Seek(x, rect)
    /\ event' = "pointerdown"
    /\ ptr' = [x |-> x, left |-> rect.left, width |-> rect.width]
    /\ UNCHANGED <<barsIn, barsOut>>
    /\ UNCHANGED homeVars
    /\ UNCHANGED <<life, src, disabled, graphs, cur, pending, nextFrame,
                   duration, markerX, barWidth, playback>>

\* Mutant of PointerMove: the seekingRef test is missing.
PointerMoveAlways(x, rect) ==
    /\ life = "mounted"
    /\ IF disabled
       THEN /\ raised' = FALSE
            /\ UNCHANGED <<currentTime, progressRef, progress>>
       ELSE Seek(x, rect)
    /\ event' = "pointermove"
    /\ ptr' = [x |-> x, left |-> rect.left, width |-> rect.width]
    /\ UNCHANGED <<barsIn, barsOut>>
    /\ UNCHANGED homeVars
    /\ UNCHANGED <<life, src, disabled, graphs, cur, pending, nextFrame,
                   duration, seekingRef, markerX, barWidth, playback>>

PointerMove(x, rect) ==
    /\ life = "mounted"
    /\ IF ~seekingRef \/ disabled
       THEN /\ raised' = FALSE
            /\ UNCHANGED <<currentTime, progressRef, progress>>
       ELSE Seek(x, rect)
    /\ event' = "pointermove"
    /\ ptr' = [x |-> x, left |-> rect.left, width |-> rect.width]
    /\ UNCHANGED <<barsIn, barsOut>>
    /\ UNCHANGED homeVars
    /\ UNCHANGED <<life, src, disabled, graphs, cur, pending, nextFrame,
                   duration, seekingRef, markerX, barWidth, playback>>

\* try { releasePointerCapture(pointerId) } catch { /* noop */ }: whether the
\* handler lets the failure escape.
ReleaseRaises(releaseFails) == FALSE

\* onPointerUp and onPointerLeave share handlePointerUp; releaseFails is
\* releasePointerCapture throwing.
PointerUp(kind, releaseFails) ==
    /\ life = "mounted"
    /\ IF disabled
       THEN /\ raised' = FALSE
            /\ UNCHANGED seekingRef
       ELSE /\ seekingRef' = FALSE
            /\ raised' = ReleaseRaises(releaseFails)
    /\ event' = kind
    /\ ptr' = NoPtr
    /\ UNCHANGED <<barsIn, barsOut>>
    /\ UNCHANGED homeVars
    /\ UNCHANGED <<life, src, disabled, graphs, cur, pending, nextFrame,
                   duration, currentTime, progressRef, progress, markerX,
                   barWidth, playback>>

-----------------------------------------------------------------------------
Next ==
    \/ \E o \in SetupOutcomes, st \in ContextStates : Mount(o, st)
    \/ \E s \in Sources, o \in SetupOutcomes, st \in ContextStates : SrcChange(s, o, st)
    \/ \E o \in SetupOutcomes, st \in ContextStates : Toggle(o, st)
    \/ Unmount
    \/ Play
    \/ Pause
    \/ Ended
    \/ \E t \in Times : TimeUpdate(t)
    \/ \E d \in Durations : LoadedMetadata(d)
    \/ Frame
    \/ \E x \in Xs, r \in Rects : PointerDown(x, r)
    \/ \E x \in Xs, r \in Rects : PointerMove(x, r)
    \/ \E k \in {"pointerup", "pointerleave"}, f \in BOOLEAN : PointerUp(k, f)

Spec == Init /\ [][Next]_vars

\* The graph and the render loop under every change of props and every
\* play, pause, ended and frame event; no timeupdate and no pointer events.
\* handleTime and the pointer handlers read and write neither graphs, cur,
\* pending nor nextFrame.
NextLoop ==
    \/ \E o \in SetupOutcomes, st \in ContextStates : Mount(o, st)
    \/ \E s \in Sources, o \in SetupOutcomes, st \in ContextStates : SrcChange(s, o, st)
    \/ \E o \in SetupOutcomes, st \in ContextStates : Toggle(o, st)
    \/ Unmount
    \/ Play
    \/ Pause
    \/ Ended
    \/ \E d \in Durations : LoadedMetadata(d)
    \/ Frame

LoopSpec == Init /\ [][NextLoop]_vars

\* Progress and seeking under every lifecycle, time and pointer event; no
\* play, pause or frame events.  handlePlay, handlePause and render write
\* neither progress copy, seekingRef nor the media position.
NextSeek ==
    \/ \E o \in SetupOutcomes, st \in ContextStates : Mount(o, st)
    \/ \E s \in Sources, o \in SetupOutcomes, st \in ContextStates : SrcChange(s, o, st)
    \/ \E o \in SetupOutcomes, st \in ContextStates : Toggle(o, st)
    \/ Unmount
    \/ Ended
    \/ \E t \in Times : TimeUpdate(t)
    \/ \E d \in Durations : LoadedMetadata(d)
    \/ \E x \in Xs, r \in Rects : PointerDown(x, r)
    \/ \E x \in Xs, r \in Rects : PointerMove(x, r)
    \/ \E k \in {"pointerup", "pointerleave"}, f \in BOOLEAN : PointerUp(k, f)

SeekSpec == Init /\ [][NextSeek]_vars

\* One source played from mount to unmount: playback, time and frame events
\* under fixed props.
NextPlay ==
    \/ \E o \in SetupOutcomes, st \in ContextStates : Mount(o, st)
    \/ Unmount
    \/ Play
    \/ Pause
    \/ Ended
    \/ \E t \in Times : TimeUpdate(t)
    \/ \E d \in Durations : LoadedMetadata(d)
    \/ Frame

PlaySpec == Init /\ [][NextPlay]_vars

\* The same events with the display running every requested frame callback:
\* requestAnimationFrame callbacks are run at the next repaint.
PlayFairSpec == Init /\ [][NextPlay]_vars /\ WF_vars(Frame)

\* The bar loop of one render tick, run on its own for a canvas width, a bin
\* count and a frequency frame.
Draw(width, n, data) ==
    /\ barsIn' = [width |-> width, bins |-> n, data |-> data]
    /\ barsOut' = DrawBars(width, n, data)
    /\ UNCHANGED <<life, src, disabled, graphs, cur, pending, nextFrame,
                   duration, currentTime, progressRef, progress, seekingRef,
                   markerX, barWidth, playback, event, ptr, raised>>
    /\ UNCHANGED homeVars

NextBars ==
    \E width \in Widths, n \in 1..MaxBins :
        \E data \in [1..n -> Levels] : Draw(width, n, data)

BarsSpec == Init /\ [][NextBars]_vars

\* Mounts, prop changes and unmounts of an instance that is played and
\* paused, on a platform whose disconnect() or close() may throw.
NextFault ==
    \/ \E o \in SetupOutcomes, st \in ContextStates : Mount(o, st)
    \/ \E s \in Sources, o \in SetupOutcomes, st \in ContextStates,
          f \in TeardownFaults : SrcChangeWith(s, o, st, f)
    \/ \E o \in SetupOutcomes, st \in ContextStates, f \in TeardownFaults :
          ToggleWith(o, st, f)
    \/ \E f \in TeardownFaults : UnmountWith(f)
    \/ Play
    \/ Pause

FaultSpec == Init /\ [][NextFault]_vars

-----------------------------------------------------------------------------
(* HomePage: the stems list and the blob URLs of its stems.  Blob URLs are  *)
(* numbered in the order URL.createObjectURL returns them; the history list *)
(* and the object URL of the selected file play no part in the stems list.  *)

\* audioUrl of a stem that could not be cached: the absolute server URL.
Remote == 0

Range(q) == {q[i] : i \in 1..Len(q)}

\* A hydrateStem promise that has not settled.
PendingStem == [done |-> FALSE, audioUrl |-> Remote, visualizerReady |-> FALSE]

\* hydrateStem's result: a stem on a fresh blob URL when the fetch succeeds,
\* a stem on the server URL, without visualizer, when it fails.
HydratedStem(fetched, blob) ==
    IF fetched
    THEN [done |-> TRUE, audioUrl |-> blob, visualizerReady |-> TRUE]
    ELSE [done |-> TRUE, audioUrl |-> Remote, visualizerReady |-> FALSE]

\* The Stem objects handed to setStems.
StemsOf(m) ==
    [i \in 1..Len(m) |->
        [audioUrl |-> m[i].audioUrl, visualizerReady |-> m[i].visualizerReady]]

\* clearStemBlobs: every allocated URL is revoked and the list is emptied.
ClearStemBlobs ==
    /\ revoked' = revoked \cup Range(allocatedBlobUrls)
    /\ allocatedBlobUrls' = << >>

\* handleFileChange with a file chosen.
FileChange ==
    /\ file < MaxFiles
    /\ file' = file + 1
    /\ stems' = << >>
    /\ ClearStemBlobs
    /\ UNCHANGED <<uploading, nextBlob, pc, mapped>>
    /\ UNCHANGED spectrumVars

\* A click on "Run segmentation" (the button is disabled without a file and
\* while uploading): handleProcess up to its await of the segment request.
Process ==
    /\ file # 0
    /\ ~uploading
    /\ pc = "idle"
    /\ uploading' = TRUE
    /\ pc' = "segment"
    /\ UNCHANGED <<file, stems, allocatedBlobUrls, revoked, nextBlob, mapped>>
    /\ UNCHANGED spectrumVars

\* The segment request settles: handleProcess from the response to its next
\* await.  ok is a 2xx response; n is the number of stems it lists.
SegmentResponse(ok, n) ==
    /\ pc = "segment"
    /\ IF ~ok
       THEN /\ uploading' = FALSE
            /\ pc' = "idle"
            /\ UNCHANGED <<stems, allocatedBlobUrls, revoked, mapped>>
       ELSE IF n = 0
       THEN /\ ClearStemBlobs
            /\ stems' = << >>
            /\ uploading' = FALSE
            /\ pc' = "idle"
            /\ UNCHANGED mapped
       ELSE /\ ClearStemBlobs
            /\ mapped' = [i \in 1..n |-> PendingStem]
            /\ pc' = "hydrate"
            /\ UNCHANGED <<stems, uploading>>
    /\ UNCHANGED <<file, nextBlob>>
    /\ UNCHANGED spectrumVars

\* The fetch of stem i settles: hydrateStem from its await to its return, and,
\* when it is the last one, handleProcess from Promise.all to its end.
StemFetched(i, fetched) ==
    /\ pc = "hydrate"
    /\ i \in 1..Len(mapped)
    /\ ~mapped[i].done
    /\ fetched => nextBlob < MaxBlobs
    /\ nextBlob' = IF fetched THEN nextBlob + 1 ELSE nextBlob
    /\ allocatedBlobUrls' = IF fetched THEN Append(allocatedBlobUrls, nextBlob + 1)
                            ELSE allocatedBlobUrls
    /\ LET m == [mapped EXCEPT ![i] = HydratedStem(fetched, nextBlob + 1)] IN
        IF \A j \in 1..Len(m) : m[j].done
        THEN /\ stems' = StemsOf(m)
             /\ uploading' = FALSE
             /\ pc' = "idle"
             /\ mapped' = << >>
        ELSE /\ mapped' = m
             /\ UNCHANGED <<stems, uploading, pc>>
    /\ UNCHANGED <<file, revoked>>
    /\ UNCHANGED spectrumVars

NextHome ==
    \/ FileChange
    \/ Process
    \/ \E ok \in BOOLEAN, n \in 0..MaxStems : SegmentResponse(ok, n)
    \/ \E i \in 1..MaxStems, fetched \in BOOLEAN : StemFetched(i, fetched)

HomeSpec == Init /\ [][NextHome]_vars

-----------------------------------------------------------------------------
(* Properties *)

TimeEvents == {"timeupdate", "loadedmetadata", "ended"}
SeekEvents == {"pointerdown", "pointermove"}
ReleaseEvents == {"pointerup", "pointerleave"}

\* The audio contexts that were created and are not closed.
LiveGraphs == {g \in 1..Len(graphs) : graphs[g].ctx # "closed"}

C2_LoopStoppedAfterPause ==
    playback \in {"pause", "ended"} => pending = << >>

\* C3: every step that runs the cleanup of the graph effect (unmount, source
\* change or disabled toggle of an instance with a registered closure) leaves
\* no animation-frame callback pending, so no render loop is running.
C3_TeardownStopsLoop ==
    [][(cur # 0 /\ event' \in {"unmount", "srcchange", "toggle"})
          => pending' = << >>]_vars

\* C4: the fast-path copy and the display copy of the progress are equal in
\* every state between events.
C4_CopiesEqual == progressRef = progress

\* A seek during a drag has moved both copies and the media position.
C4_Witness ==
    /\ event = "pointermove"
    /\ seekingRef
    /\ progressRef = <<1, 4>>
    /\ progress = <<1, 4>>
    /\ currentTime = <<50, 1>>

\* C5: after every pointer-up or pointer-leave the dragging flag is false.
C5_GestureEnded == event \in ReleaseEvents => ~seekingRef

\* C6: a step that ends with disabled true constructs no graph, and while
\* disabled every pointer event leaves the media position, both progress
\* copies and the dragging flag unchanged and raises nothing.
C6_DisabledNoOps ==
    [][/\ disabled' => Len(graphs') = Len(graphs)
       /\ (disabled /\ event' \in SeekEvents \cup ReleaseEvents)
            => /\ UNCHANGED <<currentTime, progressRef, progress, seekingRef>>
               /\ ~raised']_vars

\* A pointer-down at the right edge of the canvas of a disabled instance with
\* a known duration: nothing was sought and no gesture began.
C6_Witness ==
    /\ event = "pointerdown"
    /\ disabled
    /\ life = "mounted"
    /\ duration = 200
    /\ ptr.x = ptr.left + ptr.width
    /\ currentTime = <<50, 1>>
    /\ progress = <<1, 4>>
    /\ ~seekingRef
    /\ graphs = << >>

\* A pointer event has sought: the instance is enabled, a gesture is active
\* and the duration is a positive finite number.
Sought ==
    /\ event \in SeekEvents
    /\ ~disabled
    /\ seekingRef
    /\ duration > 0

\* C7: after a seek at x over [left, left+width] with known duration d both
\* copies equal clamp((x-left)/width, 0, 1) and currentTime is that ratio
\* times d: 0 at and left of the left edge, 1 (time d) at and right of the
\* right edge, (x-left)/width in between.
C7_SeekRatio ==
    Sought =>
        LET off == ptr.x - ptr.left
            w   == ptr.width
        IN  /\ progress = progressRef
            /\ off <= 0 => (progressRef = <<0, 1>> /\ currentTime = <<0, 1>>)
            /\ off >= w => (progressRef = <<1, 1>> /\ currentTime = <<duration, 1>>)
            /\ (0 < off /\ off < w) =>
                  /\ progressRef[1] * w = off * progressRef[2]
                  /\ currentTime[1] * w = off * duration * currentTime[2]

\* A seek a quarter into the canvas of a 200 s track.
C7_Witness ==
    /\ Sought
    /\ event = "pointerdown"
    /\ duration = 200
    /\ ptr.x - ptr.left = 1
    /\ ptr.width = 4
    /\ progressRef = <<1, 4>>
    /\ currentTime = <<50, 1>>

\* C8: a pointer-down or pointer-move while the duration is NaN leaves the
\* media position and both progress copies unchanged and raises nothing.
C8_SeekUnknownDuration ==
    [][(event' \in SeekEvents /\ duration = NaN)
          => /\ UNCHANGED <<currentTime, progressRef, progress>>
             /\ ~raised']_vars

\* A gesture began on an enabled instance whose new source has no metadata
\* yet; the progress of the previous source is still in both copies.
C8_Witness ==
    /\ event = "pointerdown"
    /\ ~disabled
    /\ seekingRef
    /\ duration = NaN
    /\ ptr.x = ptr.left + ptr.width
    /\ progressRef = <<1, 4>>
    /\ progress = <<1, 4>>
    /\ currentTime = <<0, 1>>

\* A render tick has just run: a frame callback, or render() called by
\* handlePlay.
Ticked == event = "frame" \/ (event = "play" /\ cur # 0)

\* C9: after a timeupdate, loadedmetadata or ended signal with known duration
\* d > 0 and position t both copies equal clamp(t/d, 0, 1), and a render tick
\* draws the marker at (fast-path copy) * canvas width; d = 200, t = 50 gives
\* 1/4 and a marker at 75 of 300.
C9_ProgressAndMarker ==
    /\ (event \in TimeEvents /\ duration > 0) =>
          /\ progress = progressRef
          /\ currentTime[1] <= 0 => progressRef = <<0, 1>>
          /\ currentTime[1] >= duration * currentTime[2] => progressRef = <<1, 1>>
          /\ (0 < currentTime[1] /\ currentTime[1] < duration * currentTime[2]) =>
                progressRef[1] * duration * currentTime[2]
                    = currentTime[1] * progressRef[2]
          /\ (duration = 200 /\ currentTime = <<50, 1>>) => progressRef = <<1, 4>>
    /\ Ticked =>
          /\ markerX[1] * progressRef[2] = progressRef[1] * CanvasWidth * markerX[2]
          /\ progressRef = <<1, 4>> => markerX = <<75, 1>>

\* A frame callback drew the marker of a 200 s track at 50 s.
C9_Witness ==
    /\ event = "frame"
    /\ duration = 200
    /\ currentTime = <<50, 1>>
    /\ progressRef = <<1, 4>>
    /\ markerX = <<75, 1>>

\* C10 as stated: after a timeupdate, loadedmetadata or ended signal received
\* while the duration is unknown both copies are 0.
C10_ZeroWritten ==
    (event \in TimeEvents /\ duration = NaN)
        => (progressRef = <<0, 1>> /\ progress = <<0, 1>>)

\* C10 as amended: a timeupdate, loadedmetadata or ended signal received
\* while the duration is unknown writes neither copy.
C10_UnknownDurationNoOp ==
    [][(event' \in TimeEvents /\ duration' = NaN)
          => UNCHANGED <<progressRef, progress>>]_vars

\* A timeupdate of a source without metadata: both copies still hold the
\* progress of the previous source.
C10_Witness ==
    /\ event = "timeupdate"
    /\ duration = NaN
    /\ progressRef = <<1, 4>>
    /\ progress = <<1, 4>>

SetupEvents == {"mount", "srcchange", "toggle"}

\* C11 as stated: a graph is constructed only by a play event (none exists
\* before the first play, which is the step that builds it).
C11_BuiltOnPlay ==
    [][Len(graphs') > Len(graphs) => event' = "play"]_vars

\* C11 as amended: a graph is constructed only by a run of the graph effect
\* (mount, source change, disabled toggle) that ends with disabled false, and
\* a play event constructs none.
C11_BuiltByEffect ==
    [][/\ Len(graphs') > Len(graphs) => (event' \in SetupEvents /\ ~disabled')
       /\ event' = "play" => Len(graphs') = Len(graphs)]_vars

\* The instance has just mounted enabled: its graph exists and is wired, and
\* no play event has been dispatched.
C11_Witness ==
    /\ event = "mount"
    /\ ~disabled
    /\ playback = "idle"
    /\ nextFrame = 0
    /\ Len(graphs) = 1
    /\ cur = 1
    /\ graphs[1].source = "connected"
    /\ graphs[1].analyser = "connected"

\* C12: a source change leaves the graph of the old source disconnected and
\* closed with none of its render callbacks scheduled, and every render tick
\* reads the graph that was built for the current source.
C12_OldGraphTornDown ==
    [][/\ (event' = "srcchange" /\ cur # 0) =>
            /\ graphs'[cur].ctx = "closed"
            /\ graphs'[cur].source = "disconnected"
            /\ graphs'[cur].analyser = "disconnected"
            /\ \A i \in 1..Len(pending') : pending'[i].g # cur
            /\ cur' # cur
       /\ (event' = "frame" /\ pending # << >>) =>
            graphs[Head(pending).g].src = src]_vars

\* C13: a run of the graph effect never raises: whatever the outcome of the
\* setup, the instance stays mounted, and when the run registered no graph
\* nothing of a graph is left open.
C13_SetupFailureCaught ==
    event \in SetupEvents =>
        /\ ~raised
        /\ life = "mounted"
        /\ cur = 0 => LiveGraphs = {}

\* C14: every render tick, the one a play event runs and the ones the display
\* runs, reads a graph that is fully wired and has not been torn down.
C14_TickReadsLiveGraph ==
    [][/\ (event' = "play" /\ cur # 0) =>
            /\ graphs[cur].source = "connected"
            /\ graphs[cur].analyser = "connected"
            /\ graphs[cur].ctx # "closed"
       /\ (event' = "frame" /\ pending # << >>) =>
            /\ graphs[Head(pending).g].source = "connected"
            /\ graphs[Head(pending).g].analyser = "connected"
            /\ graphs[Head(pending).g].ctx # "closed"]_vars

\* C20: at most one render callback is pending, and the animationFrameId of
\* the closure that scheduled a pending callback is that callback's id.
C20_OnePendingFrame ==
    /\ Len(pending) <= 1
    /\ \A i \in 1..Len(pending) : pending[i].id = graphs[pending[i].g].frameId

\* C15 as stated: the first timeupdate, loadedmetadata or ended signal after a
\* source change leaves both copies at the position ratio of the new media,
\* which is 0 for the freshly loaded source.
C15_ResetAtFirstSignal ==
    [][(event = "srcchange" /\ event' \in TimeEvents)
          => (progressRef' = Zero /\ progress' = Zero)]_vars

\* C15 as amended: a source change itself writes neither copy, and in every
\* state where the duration of the current media is known (neither NaN nor 0)
\* both copies equal the position ratio of the current media.
C15_ResetWhenDurationKnown ==
    [][/\ event' = "srcchange" => UNCHANGED <<progressRef, progress>>
       /\ ~NoDuration(duration') =>
            /\ progressRef' = TimeRatio(currentTime', duration')
            /\ progress' = TimeRatio(currentTime', duration')]_vars

\* The metadata of the second source has arrived: both copies are back at 0.
C15_Witness ==
    /\ event = "loadedmetadata"
    /\ src = "b"
    /\ duration = 200
    /\ currentTime = Zero
    /\ progressRef = Zero
    /\ progress = Zero

InUnit(r) == RLeq(Zero, r) /\ RLeq(r, One)

\* C16: both progress copies lie in the closed interval [0,1] in every state.
C16_ProgressInUnit == InUnit(progressRef) /\ InUnit(progress)

\* A timeupdate reporting a position past the duration has been clamped to 1.
C16_Witness ==
    /\ event = "timeupdate"
    /\ duration = 200
    /\ currentTime = <<250, 1>>
    /\ progressRef = One
    /\ progress = One

\* The step has sought to the position of its pointer event: with a positive
\* finite duration the media position and both copies are those of the
\* pointer, with any other duration the seek changes nothing.
SeekStep ==
    LET rect == [left |-> ptr'.left, width |-> ptr'.width] IN
    IF duration > 0
    THEN /\ currentTime' = SeekTime(ptr'.x, rect, duration)
         /\ progressRef' = SeekRatio(ptr'.x, rect)
         /\ progress' = SeekRatio(ptr'.x, rect)
    ELSE UNCHANGED <<currentTime, progressRef, progress>>

\* C19: when not disabled, a pointer-down sets the dragging flag and seeks to
\* the pointer in the same step; a pointer-move seeks when the flag is set and
\* when it is not set changes neither currentTime nor either progress copy.
C19_DownSeeksMoveSeeksIffDragging ==
    [][/\ (event' = "pointerdown" /\ ~disabled) => (seekingRef' /\ SeekStep)
       /\ (event' = "pointermove" /\ ~disabled /\ seekingRef) => SeekStep
       /\ (event' = "pointermove" /\ ~seekingRef) =>
            UNCHANGED <<currentTime, progressRef, progress, seekingRef>>]_vars

\* A pointer-move at the right edge with no gesture active has left the
\* progress of a 200 s track at a quarter.
C19_Witness ==
    /\ event = "pointermove"
    /\ ~seekingRef
    /\ ~disabled
    /\ duration = 200
    /\ ptr.x = 14
    /\ currentTime = <<50, 1>>
    /\ progressRef = <<1, 4>>
    /\ progress = <<1, 4>>

\* Audio is playing on an instance whose graph effect registered handlePlay.
PlayingWithGraph == life = "mounted" /\ playback = "play" /\ cur # 0

OwnFrames == {i \in 1..Len(pending) : pending[i].g = cur}

\* C17: every executed tick requests exactly one next tick of its own loop,
\* every play event (the first or one after a pause or ended) requests one
\* for the current graph, a callback of the current graph is pending whenever
\* audio is playing, and with the display running requested callbacks a
\* further tick follows from every playing state, for as many frames as the
\* model counts.
C17_LoopContinues ==
    /\ [][/\ (event' = "frame" /\ pending # << >>) =>
               /\ Len(pending') = Len(pending)
               /\ pending'[Len(pending')].g = Head(pending).g
               /\ pending'[Len(pending')].id = nextFrame'
          /\ (event' = "play" /\ cur # 0) =>
               /\ Len(pending') = Len(pending) + 1
               /\ pending'[Len(pending')].g = cur
               /\ graphs'[cur].frameId = pending'[Len(pending')].id]_vars
    /\ [](PlayingWithGraph => OwnFrames # {})
    /\ \A k \in 0..(MaxFrames - 1) :
          (PlayingWithGraph /\ nextFrame = k) ~>
              (nextFrame > k \/ ~PlayingWithGraph)

\* The display has run a tick while audio plays and the tick has requested
\* the third frame of the instance: one callback of the loop is pending.
C17_Witness ==
    /\ event = "frame"
    /\ PlayingWithGraph
    /\ nextFrame = 3
    /\ Len(pending) = 1
    /\ pending[1].g = cur
    /\ graphs[cur].frameId = 3

\* The horizontal geometry of a drawn frame: x and width of every bar.
Geometry(bs) == [i \in 1..Len(bs) |-> <<bs[i].x, bs[i].w>>]

\* The right edge of the last bar.
Extent(bs) == RAdd(bs[Len(bs)].x, bs[Len(bs)].w)

\* C18: a bar loop over N bins on a canvas of width W draws N bars, each of
\* width (W/N)*1.5, the first at x = 0 and each next one bar width + 1 further
\* right, so the drawn extent is N*(W/N)*1.5 + (N-1); the bar widths, offsets
\* and extent are the same for every frequency frame with the same W and N.
C18_BarGeometry ==
    barsOut # << >> =>
        LET W == barsIn.width
            N == barsIn.bins
        IN  /\ Len(barsOut) = N
            /\ \A i \in 1..N : barsOut[i].w[1] * 2 * N = 3 * W * barsOut[i].w[2]
            /\ barsOut[1].x = Zero
            /\ \A i \in 1..(N - 1) :
                  barsOut[i + 1].x = RAdd(barsOut[i].x, RAdd(barsOut[i].w, One))
            /\ Extent(barsOut) = RAdd(<<3 * W, 2>>, <<N - 1, 1>>)
            /\ \A data \in [1..N -> Levels] :
                  /\ Geometry(DrawBars(W, N, data)) = Geometry(barsOut)
                  /\ Extent(DrawBars(W, N, data)) = Extent(barsOut)

\* Three bins on a 300 pixel canvas, one silent, one half, one full: bars of
\* width 150 at 0, 151 and 302, of heights 0, 8032/51 and 80.
C18_Witness ==
    /\ barsIn = [width |-> 300, bins |-> 3, data |-> <<0, 128, 255>>]
    /\ Len(barsOut) = 3
    /\ barsOut[1] = [x |-> <<0, 1>>, y |-> <<80, 1>>, w |-> <<150, 1>>, h |-> <<0, 1>>]
    /\ barsOut[2].x = <<151, 1>>
    /\ barsOut[3] = [x |-> <<302, 1>>, y |-> <<0, 1>>, w |-> <<150, 1>>, h |-> <<80, 1>>]

TeardownEvents == {"unmount", "srcchange", "toggle"}

\* C21: every step that runs the cleanup of a registered graph, whichever of
\* its disconnect and close calls throws, leaves that graph's context closed
\* and its analyser disconnected, and lets no exception of the cleanup escape.
C21_TeardownClosesContext ==
    [][(cur # 0 /\ event' \in TeardownEvents) =>
          /\ graphs'[cur].ctx = "closed"
          /\ graphs'[cur].analyser = "disconnected"
          /\ event' = "unmount" => ~raised']_vars

\* C22: the blob URL of every displayed stem that has one has not been
\* revoked.
C22_DisplayedBlobsLive ==
    \A i \in 1..Len(stems) :
        stems[i].audioUrl # Remote => stems[i].audioUrl \notin revoked

====
